---- MODULE Spec2Model ----
(***************************************************************************)
(* Conway's Game of Life: the Zoo file codecs (ascii .gol, binary .bgol),  *)
(* the glider constructor, and the World stepping engine on top of Grid.   *)
(*                                                                         *)
(* A file is a sequence of bytes 0..255.  Characters are their codes, so   *)
(* a Cell is the char the enum gives it (DEAD = ' ', ALIVE = '#').         *)
(***************************************************************************)
EXTENDS Integers, Sequences, FiniteSets, TLC

VARIABLES grid, file, intact, out, trace, world, hist, pc

vars == <<grid, file, intact, out, trace, world, hist, pc>>

---------------------------------------------------------------------------
(* Bounds of the model. *)

MaxW == 4
MaxH == 2
MaxCells == 8
MaxSteps == 2

---------------------------------------------------------------------------
(* Characters and cells. *)

DEAD == 32
ALIVE == 35
NL == 10
SPACE == 32
MINUS == 45
PLUS == 43
ZERO == 48

\* characters that are neither a cell's nor a newline ('x')
OtherChars == {120}

\* What an uninitialised char / int may hold when it is read.
IndetBytes == {0, 10, 32, 35, 165, 255}
IndetInts == -1 .. 2

\* The values to try for a variable: one is enough when a read is certain to
\* fill it before it is used.
Held(filled, values) == IF filled THEN {0} ELSE values

---------------------------------------------------------------------------
(* Grid *)

Coords(w, h) == (0 .. w - 1) \X (0 .. h - 1)

NewGrid(w, h) == [w |-> w, h |-> h, cells |-> [p \in Coords(w, h) |-> DEAD]]

InBounds(g, x, y) == x >= 0 /\ x < g.w /\ y >= 0 /\ y < g.h

GridGet(g, x, y) == g.cells[<<x, y>>]

GridSet(g, x, y, c) == [g EXCEPT !.cells[<<x, y>>] = c]

get_alive_cells(g) == Cardinality({p \in DOMAIN g.cells : g.cells[p] = ALIVE})

gliderMissingCell ==
    GridSet(GridSet(GridSet(GridSet(NewGrid(3, 3),
        0, 2, ALIVE), 1, 2, ALIVE), 2, 2, ALIVE), 2, 1, ALIVE)

glider ==
    GridSet(GridSet(GridSet(GridSet(GridSet(NewGrid(3, 3),
        0, 2, ALIVE), 1, 2, ALIVE), 2, 2, ALIVE), 2, 1, ALIVE), 1, 0, ALIVE)

\* The grids a caller hands to the codecs and to World.
Dims == {d \in (0 .. MaxW) \X (0 .. MaxH) : d[1] * d[2] <= MaxCells}

InputGrids ==
    UNION {{[w |-> d[1], h |-> d[2], cells |-> c] :
                c \in [Coords(d[1], d[2]) -> {DEAD, ALIVE}]} : d \in Dims}
    \cup {glider}

---------------------------------------------------------------------------
(* Bytes and the 4-byte int of the binary header. *)

Pow2(i) == 2 ^ i

Bit(b, i) == (b \div Pow2(i)) % 2

SetBit(b, i) == IF Bit(b, i) = 1 THEN b ELSE b + Pow2(i)

\* outFile.write((char*) &n, sizeof(int)), little-endian two's complement
IntBytes(n) ==
    LET m == IF n < 0 THEN (n + 2147483647) + 1 ELSE n
        top == (m \div 16777216) + (IF n < 0 THEN 128 ELSE 0)
    IN  <<m % 256, (m \div 256) % 256, (m \div 65536) % 256, top>>

\* inFile.read((char*) &n, sizeof(int))
BytesInt(b) ==
    LET low == b[1] + 256 * b[2] + 65536 * b[3] + 16777216 * (b[4] % 128)
    IN  IF b[4] >= 128 THEN (low - 2147483647) - 1 ELSE low

---------------------------------------------------------------------------
(* Zoo::save_binary *)

RECURSIVE SaveBits(_, _, _, _, _)
SaveBits(g, column, row, i, buf) ==
    IF i < 8 /\ column <= g.w - 1 /\ row <= g.h - 1
    THEN LET b == IF GridGet(g, column, row) = ALIVE THEN SetBit(buf, i) ELSE buf
             wrap == column + 1 = g.w
         IN  SaveBits(g, IF wrap THEN 0 ELSE column + 1,
                         IF wrap THEN row + 1 ELSE row, i + 1, b)
    ELSE [buf |-> buf, column |-> column, row |-> row]

BinaryByteCount(w, h) == (w * h) \div 8 + 1

RECURSIVE SaveBytes(_, _, _, _, _, _)
SaveBytes(g, k, column, row, buf, written) ==
    IF k < BinaryByteCount(g.w, g.h)
    THEN LET r == SaveBits(g, column, row, 0, buf)
         IN  SaveBytes(g, k + 1, r.column, r.row, 0, Append(written, r.buf))
    ELSE written

\* garbage: what the uninitialised buffer[0] holds before the first byte
save_binary(g, garbage) ==
    SaveBytes(g, 0, 0, 0, garbage, IntBytes(g.w) \o IntBytes(g.h))

---------------------------------------------------------------------------
(* std::ifstream: position, eofbit, failbit *)

OpenStream == [pos |-> 0, eof |-> FALSE, fail |-> FALSE]

Good(s) == ~s.eof /\ ~s.fail

\* istream::read(buf, n): TRUE when all n bytes were there
CanRead(s, f, n) == Good(s) /\ s.pos + n <= Len(f)

AfterRead(s, f, n) ==
    IF CanRead(s, f, n) THEN [s EXCEPT !.pos = s.pos + n]
    ELSE IF Good(s) THEN [pos |-> Len(f), eof |-> TRUE, fail |-> TRUE]
    ELSE [s EXCEPT !.fail = TRUE]

Ok(g) == [status |-> "ok", what |-> "", grid |-> g]
Error(what) == [status |-> "error", what |-> what, grid |-> NewGrid(0, 0)]
NoResult == [status |-> "none", what |-> "", grid |-> NewGrid(0, 0)]

StreamCheckSkipped(s, g) == Ok(g)

\* if (!inFile.good()) throw ...; return gridReturned;
StreamCheck(s, g) ==
    IF ~Good(s)
    THEN IF s.eof THEN Error("File ended unexpectedly.")
         ELSE Error("An error occured.")
    ELSE Ok(g)

---------------------------------------------------------------------------
(* Zoo::load_binary *)

RECURSIVE LoadBits(_, _, _, _, _)
LoadBits(g, column, row, i, buf) ==
    IF i < 8 /\ column <= g.w - 1 /\ row <= g.h - 1
    THEN LET g2 == IF Bit(buf, i) = 1 THEN GridSet(g, column, row, ALIVE) ELSE g
             wrap == column + 1 = g.w
         IN  LoadBits(g2, IF wrap THEN 0 ELSE column + 1,
                          IF wrap THEN row + 1 ELSE row, i + 1, buf)
    ELSE [grid |-> g, column |-> column, row |-> row]

RECURSIVE LoadBytes(_, _, _, _, _, _, _)
LoadBytes(f, s, g, k, column, row, buf) ==
    IF k < BinaryByteCount(g.w, g.h)
    THEN LET b == IF CanRead(s, f, 1) THEN f[s.pos + 1] ELSE buf
             r == LoadBits(g, column, row, 0, b)
         IN  LoadBytes(f, AfterRead(s, f, 1), r.grid, k + 1, r.column, r.row, b)
    ELSE StreamCheck(s, g)

\* iw, ih, ib: what realWidth, realHeight and buffer[0] hold while no read
\* has filled them
load_binary(f, iw, ih, ib) ==
    LET s0 == OpenStream
        realWidth == IF CanRead(s0, f, 4) THEN BytesInt(SubSeq(f, 1, 4)) ELSE iw
        s1 == AfterRead(s0, f, 4)
        realHeight == IF CanRead(s1, f, 4) THEN BytesInt(SubSeq(f, 5, 8)) ELSE ih
        s2 == AfterRead(s1, f, 4)
    IN  IF realWidth < 0 \/ realHeight < 0
        THEN Error("Invalid dimension.")
        ELSE LoadBytes(f, s2, NewGrid(realWidth, realHeight), 0, 0, 0, ib)

---------------------------------------------------------------------------
(* Zoo::save_ascii *)

IsDigit(c) == c >= ZERO /\ c <= ZERO + 9

RECURSIVE Digits(_)
Digits(n) == IF n < 10 THEN <<ZERO + n>> ELSE Append(Digits(n \div 10), ZERO + (n % 10))

\* outFile << n
FormatInt(n) == IF n < 0 THEN <<MINUS>> \o Digits(0 - n) ELSE Digits(n)

RECURSIVE RowChars(_, _, _)
RowChars(g, i, j) ==
    IF j < g.w THEN <<GridGet(g, j, i)>> \o RowChars(g, i, j + 1) ELSE <<>>

AsciiRowUnterminated(g, i) == RowChars(g, i, 0)

AsciiRow(g, i) == RowChars(g, i, 0) \o <<NL>>

RECURSIVE AsciiRows(_, _)
AsciiRows(g, i) == IF i < g.h THEN AsciiRow(g, i) \o AsciiRows(g, i + 1) ELSE <<>>

save_ascii(g) == FormatInt(g.w) \o <<SPACE>> \o FormatInt(g.h) \o <<NL>> \o AsciiRows(g, 0)

---------------------------------------------------------------------------
(* Zoo::load_ascii *)

IsSpace(c) == c \in {SPACE, NL, 9, 11, 12, 13}

RECURSIVE SkipWs(_, _)
SkipWs(f, pos) ==
    IF pos < Len(f) /\ IsSpace(f[pos + 1]) THEN SkipWs(f, pos + 1) ELSE pos

RECURSIVE ScanDigits(_, _, _, _)
ScanDigits(f, pos, acc, n) ==
    IF pos < Len(f) /\ IsDigit(f[pos + 1])
    THEN ScanDigits(f, pos + 1, acc * 10 + (f[pos + 1] - ZERO), n + 1)
    ELSE [pos |-> pos, val |-> acc, n |-> n]

\* inFile >> n.  indet: what n holds when nothing was extracted into it
ParseInt(f, s, indet) ==
    IF ~Good(s) THEN [s |-> [s EXCEPT !.fail = TRUE], ok |-> FALSE, val |-> indet]
    ELSE LET p0 == SkipWs(f, s.pos)
             signed == p0 < Len(f) /\ f[p0 + 1] \in {MINUS, PLUS}
             p1 == IF signed THEN p0 + 1 ELSE p0
             d == ScanDigits(f, p1, 0, 0)
         IN  IF d.n = 0
             THEN [s |-> [pos |-> p1, eof |-> p1 = Len(f), fail |-> TRUE],
                   ok |-> FALSE, val |-> indet]
             ELSE [s |-> [pos |-> d.pos, eof |-> d.pos = Len(f), fail |-> FALSE],
                   ok |-> TRUE,
                   val |-> IF signed /\ f[p0 + 1] = MINUS THEN 0 - d.val ELSE d.val]

\* inFile.get(x): the char x holds afterwards (unchanged when the read fails)
GetChar(f, s, x) == IF CanRead(s, f, 1) THEN f[s.pos + 1] ELSE x

\* what was at the position: the char read, or -1 when there was none
Seen(f, s) == IF CanRead(s, f, 1) THEN f[s.pos + 1] ELSE -1

CellCharUnchecked(x) == TRUE

\* !(x != ' ' && x != '#')
CellCharOk(x) == ~(x # SPACE /\ x # ALIVE)

NegativeDims(width, height) == width < 0 \/ height < 0

NoTrace ==
    [wOk |-> FALSE, hOk |-> FALSE, width |-> 0, height |-> 0, sep |-> -2,
     cellReads |-> {}, sets |-> {}, nlReads |-> {}]

Thrown(a, what) == [a EXCEPT !.err = what]

RECURSIVE LoadCells(_, _, _, _)
LoadCells(f, a, i, j) ==
    IF j < a.g.w
    THEN LET x == GetChar(f, a.s, a.x)
             a1 == [a EXCEPT !.s = AfterRead(a.s, f, 1), !.x = x,
                      !.tr.cellReads = @ \cup {[x |-> j, y |-> i, ch |-> Seen(f, a.s)]}]
         IN  IF ~CellCharOk(x)
             THEN Thrown(a1, "The character for a cell is not the ALIVE or DEAD character.")
             ELSE IF ~InBounds(a1.g, j, i)
             THEN Thrown(a1, "Grid index out of bounds.")
             ELSE LoadCells(f, [a1 EXCEPT !.g = GridSet(a1.g, j, i, x),
                                          !.tr.sets = @ \cup {<<j, i>>}], i, j + 1)
    ELSE a

RECURSIVE LoadRows(_, _, _)
LoadRows(f, a, i) ==
    IF i < a.g.h
    THEN LET c == LoadCells(f, a, i, 0)
         IN  IF c.err # "" THEN c
             ELSE LET x == GetChar(f, c.s, c.x)
                      c1 == [c EXCEPT !.s = AfterRead(c.s, f, 1), !.x = x,
                               !.tr.nlReads = @ \cup {[row |-> i, ch |-> Seen(f, c.s)]}]
                  IN  IF x # NL
                      THEN Thrown(c1, "Newline characters are not found when expected during parsing.")
                      ELSE LoadRows(f, c1, i + 1)
    ELSE a

\* iw, ih, ix: what width, height and x hold while nothing was read into them
load_ascii(f, iw, ih, ix) ==
    LET pw == ParseInt(f, OpenStream, iw)
        ph == ParseInt(f, pw.s, ih)
        tr0 == [NoTrace EXCEPT !.wOk = pw.ok, !.hOk = ph.ok,
                               !.width = pw.val, !.height = ph.val]
    IN  IF NegativeDims(pw.val, ph.val)
        THEN [res |-> Error("The parsed width or height is not a positive integer."),
              tr |-> tr0]
        ELSE LET x == GetChar(f, ph.s, ix)
                 a == LoadRows(f, [s |-> AfterRead(ph.s, f, 1), x |-> x,
                                   g |-> NewGrid(pw.val, ph.val),
                                   tr |-> [tr0 EXCEPT !.sep = Seen(f, ph.s)],
                                   err |-> ""], 0)
             IN  [res |-> IF a.err # "" THEN Error(a.err) ELSE StreamCheck(a.s, a.g),
                  tr |-> a.tr]

---------------------------------------------------------------------------
(* World *)

Mod(a, n) == ((a % n) + n) % n

Offsets == {d \in (-1 .. 1) \X (-1 .. 1) : d # <<0, 0>>}

\* the cell a neighbour position holds: wrapped on the torus, DEAD outside
\* the grid otherwise
NeighbourCell(g, x, y, toroidal) ==
    IF toroidal THEN GridGet(g, Mod(x, g.w), Mod(y, g.h))
    ELSE IF InBounds(g, x, y) THEN GridGet(g, x, y)
    ELSE DEAD

count_neighbours(g, x, y, toroidal) ==
    Cardinality({d \in Offsets : NeighbourCell(g, x + d[1], y + d[2], toroidal) = ALIVE})

NextCell(g, x, y, toroidal) ==
    LET n == count_neighbours(g, x, y, toroidal)
    IN  IF GridGet(g, x, y) = ALIVE /\ n \in {2, 3} THEN ALIVE
        ELSE IF GridGet(g, x, y) = DEAD /\ n = 3 THEN ALIVE
        ELSE DEAD

\* World(Grid initial_state)
NewWorld(g) == [current |-> g, future |-> NewGrid(g.w, g.h)]

\* step: fill future from current, then swap the two
step(wd, toroidal) ==
    LET filled == [wd.future EXCEPT !.cells =
                      [p \in DOMAIN wd.current.cells |->
                          NextCell(wd.current, p[1], p[2], toroidal)]]
    IN  [current |-> filled, future |-> wd.current]

---------------------------------------------------------------------------
Init ==
    /\ grid \in InputGrids
    /\ file = <<>>
    /\ intact = TRUE
    /\ out = NoResult
    /\ trace = NoTrace
    /\ world = [current |-> NewGrid(0, 0), future |-> NewGrid(0, 0)]
    /\ hist = <<>>
    /\ pc = "start"

SaveBinary ==
    /\ pc = "start"
    /\ \E garbage \in IndetBytes : file' = save_binary(grid, garbage)
    /\ pc' = "binary"
    /\ UNCHANGED <<grid, intact, out, trace, world, hist>>

\* the file is cut short between the save and the load
Truncate ==
    /\ pc \in {"binary", "ascii"}
    /\ intact
    /\ \E k \in 0 .. Len(file) - 1 : file' = SubSeq(file, 1, k)
    /\ intact' = FALSE
    /\ UNCHANGED <<grid, out, trace, world, hist, pc>>

LoadBinary ==
    /\ pc = "binary"
    /\ \E iw \in Held(Len(file) >= 4, IndetInts),
          ih \in Held(Len(file) >= 8, IndetInts),
          ib \in Held(Len(file) >= 9, IndetBytes) :
          out' = load_binary(file, iw, ih, ib)
    /\ pc' = "loaded_binary"
    /\ UNCHANGED <<grid, file, intact, trace, world, hist>>

SaveAscii ==
    /\ pc = "start"
    /\ file' = save_ascii(grid)
    /\ pc' = "ascii"
    /\ UNCHANGED <<grid, intact, out, trace, world, hist>>

\* one character of the text file is replaced between the save and the load
Overwrite ==
    /\ pc = "ascii"
    /\ intact
    /\ \E p \in 1 .. Len(file), c \in OtherChars \cup {NL, SPACE} :
          /\ file[p] # c
          /\ file' = [file EXCEPT ![p] = c]
    /\ intact' = FALSE
    /\ UNCHANGED <<grid, out, trace, world, hist, pc>>

\* a minus sign is put in front of one of the header's numbers
Negate ==
    /\ pc = "ascii"
    /\ intact
    /\ \E p \in 1 .. Len(file) :
          /\ IsDigit(file[p])
          /\ file' = SubSeq(file, 1, p - 1) \o <<MINUS>> \o SubSeq(file, p, Len(file))
    /\ intact' = FALSE
    /\ UNCHANGED <<grid, out, trace, world, hist, pc>>

LoadAscii ==
    /\ pc = "ascii"
    /\ LET pw == ParseInt(file, OpenStream, 0)
           ph == ParseInt(file, pw.s, 0)
       IN  \E iw \in Held(pw.ok, IndetInts),
              ih \in Held(ph.ok, IndetInts),
              ix \in Held(CanRead(ph.s, file, 1), IndetBytes) :
              LET r == load_ascii(file, iw, ih, ix)
              IN  out' = r.res /\ trace' = r.tr
    /\ pc' = "loaded_ascii"
    /\ UNCHANGED <<grid, file, intact, world, hist>>

Construct ==
    /\ pc = "start"
    /\ world' = NewWorld(grid)
    /\ pc' = "world"
    /\ UNCHANGED <<grid, file, intact, out, trace, hist>>

Step ==
    /\ pc = "world"
    /\ Len(hist) < MaxSteps
    /\ \E toroidal \in BOOLEAN :
          /\ world' = step(world, toroidal)
          /\ hist' = Append(hist, toroidal)
    /\ UNCHANGED <<grid, file, intact, out, trace, pc>>

Next ==
    \/ SaveBinary
    \/ SaveAscii
    \/ Truncate
    \/ Overwrite
    \/ Negate
    \/ LoadBinary
    \/ LoadAscii
    \/ Construct
    \/ Step

Spec == Init /\ [][Next]_vars

---------------------------------------------------------------------------
(* Binary codec properties *)

CeilDiv8(n) == (n + 7) \div 8

Cells(g) == g.w * g.h

\* the cell with row-major index i
CellAt(g, i) == GridGet(g, i % g.w, i \div g.w)

HeaderW == BytesInt(SubSeq(file, 1, 4))
HeaderH == BytesInt(SubSeq(file, 5, 8))

\* C1: a grid saved with save_binary and loaded back with load_binary comes
\* back with the same width, height and cells.
C1_BinaryRoundTrip ==
    (pc = "loaded_binary" /\ intact) => (out.status = "ok" /\ out.grid = grid)

\* C2: save_binary writes exactly ceil(width*height/8) body bytes after the
\* 8 header bytes.
C2_BodyLength ==
    (pc = "binary" /\ intact) => Len(file) = 8 + CeilDiv8(Cells(grid))

\* C3: bit i % 8 of body byte i / 8 is 1 exactly when cell i is ALIVE, and
\* every bit of a written byte that is no cell's bit is 0.
C3_BodyBits ==
    (pc = "binary" /\ intact) =>
        \A k \in 1 .. Len(file) - 8 : \A b \in 0 .. 7 :
            LET i == 8 * (k - 1) + b
            IN  Bit(file[8 + k], b) =
                    (IF i < Cells(grid) /\ CellAt(grid, i) = ALIVE THEN 1 ELSE 0)

ExactFile ==
    /\ Len(file) >= 8
    /\ HeaderW >= 0
    /\ HeaderH >= 0
    /\ Len(file) = 8 + CeilDiv8(HeaderW * HeaderH)

\* C4: load_binary loads a file of a header and exactly ceil(width*height/8)
\* body bytes, and cell i of the grid is ALIVE exactly when bit i % 8 of body
\* byte i / 8 is 1.
C4_LoadExactFile ==
    (pc = "loaded_binary" /\ ExactFile) =>
        /\ out.status = "ok"
        /\ out.grid.w = HeaderW
        /\ out.grid.h = HeaderH
        /\ \A i \in 0 .. HeaderW * HeaderH - 1 :
              (CellAt(out.grid, i) = ALIVE) = (Bit(file[9 + i \div 8], i % 8) = 1)

ShortFile ==
    \/ Len(file) < 8
    \/ /\ HeaderW >= 0
       /\ HeaderH >= 0
       /\ Len(file) < 8 + CeilDiv8(HeaderW * HeaderH)

\* C5: load_binary of a file shorter than its header declares ends in an
\* error, never in a grid; with the header complete the error is the
\* end-of-file one.
C5_TruncatedFails ==
    (pc = "loaded_binary" /\ ShortFile) =>
        /\ out.status = "error"
        /\ Len(file) >= 8 => out.what = "File ended unexpectedly."

C5_Witness ==
    /\ pc = "loaded_binary"
    /\ Len(file) >= 8
    /\ HeaderW * HeaderH > 8
    /\ Len(file) = 9
    /\ out.status = "error"

---------------------------------------------------------------------------
(* Ascii codec properties *)

Malformed == "The character for a cell is not the ALIVE or DEAD character."

\* C6: a character read at a cell position that is neither ' ' nor '#' ends
\* load_ascii in the malformed-content error, before any set for that cell.
C6_BadCellRejected ==
    pc = "loaded_ascii" =>
        \A r \in trace.cellReads :
            r.ch \notin {-1, SPACE, ALIVE} =>
                /\ out.status = "error"
                /\ out.what = Malformed
                /\ <<r.x, r.y>> \notin trace.sets

C6_Witness ==
    /\ pc = "loaded_ascii"
    /\ trace.width = 3
    /\ trace.height = 2
    /\ \E r \in trace.cellReads : r.ch \in OtherChars /\ r.y = 1
    /\ out.what = Malformed

NewlineMissing ==
    \/ trace.sep \notin {-2, NL}
    \/ \E r \in trace.nlReads : r.ch # NL

\* C7: load_ascii never succeeds on a file in which the character after the
\* header, or after the last cell of a row, is not a newline.
C7_NewlineRequired ==
    (pc = "loaded_ascii" /\ trace.wOk /\ trace.hOk /\ NewlineMissing) =>
        out.status = "error"

HeaderBad ==
    \/ ~trace.wOk
    \/ ~trace.hOk
    \/ trace.width < 0
    \/ trace.height < 0

\* C8: load_ascii ends in an error whenever the header's width or height is
\* negative or cannot be parsed.
C8_BadHeaderFails ==
    (pc = "loaded_ascii" /\ HeaderBad) => out.status = "error"

C8_Witness ==
    /\ pc = "loaded_ascii"
    /\ ~trace.wOk
    /\ trace.width >= 0
    /\ trace.height >= 0
    /\ out.status = "error"

AsciiFormat ==
    /\ Len(file) = 4 + grid.h * (grid.w + 1)
    /\ file[1] = ZERO + grid.w
    /\ file[2] = SPACE
    /\ file[3] = ZERO + grid.h
    /\ file[4] = NL
    /\ \A y \in 0 .. grid.h - 1 :
          /\ \A x \in 0 .. grid.w - 1 :
                file[4 + y * (grid.w + 1) + x + 1] =
                    (IF GridGet(grid, x, y) = ALIVE THEN 35 ELSE 32)
          /\ file[4 + y * (grid.w + 1) + grid.w + 1] = NL

---------------------------------------------------------------------------
(* Glider scenario *)

PhaseA == {<<1, 0>>, <<2, 1>>, <<0, 2>>, <<1, 2>>, <<2, 2>>}
PhaseB == {<<0, 0>>, <<2, 0>>, <<1, 1>>, <<2, 1>>, <<1, 2>>}

Transpose(p) == <<p[2], p[1]>>
Rot(p) == <<2 - p[2], p[1]>>

RECURSIVE RotN(_, _)
RotN(p, n) == IF n = 0 THEN p ELSE RotN(Rot(p), n - 1)

\* every placement of a glider phase on the 3x3 torus
GliderPhases ==
    {{<<(RotN(IF flip THEN Transpose(p) ELSE p, n)[1] + t[1]) % 3,
        (RotN(IF flip THEN Transpose(p) ELSE p, n)[2] + t[2]) % 3>> : p \in base} :
        base \in {PhaseA, PhaseB}, flip \in BOOLEAN, n \in 0 .. 3,
        t \in (0 .. 2) \X (0 .. 2)}

AliveSet(g) == {p \in DOMAIN g.cells : g.cells[p] = ALIVE}

GliderSteppedOnce == pc = "world" /\ grid = glider /\ hist = <<TRUE>>

\* C9 as stated: the glider's world after one toroidal step holds a phase of
\* the glider.
C9_GliderNextPhase ==
    GliderSteppedOnce => AliveSet(world.current) \in GliderPhases

\* C9: the glider's 3x3 world after one toroidal step holds no live cell: on
\* the 3x3 torus the 8 neighbours of a cell are the 8 other cells.
C9_GliderDiesOut ==
    GliderSteppedOnce =>
        /\ world.current.w = 3
        /\ world.current.h = 3
        /\ get_alive_cells(world.current) = 0

C9_Witness ==
    /\ GliderSteppedOnce
    /\ world.future = glider
    /\ AliveSet(grid) = PhaseA

====
